---- MODULE Spec2Model ----
(***************************************************************************)
(* Model of the video editor's editing core: the clip registry             *)
(* (timeline_manager.py), the keep-segment editor of the main window       *)
(* (main_window.py) and the export command builder (video_engine.py).      *)
(* Times are integers in milliseconds, as in the code.                     *)
(***************************************************************************)
EXTENDS Integers, Sequences, FiniteSets, TLC

(* ------------------------------ bounds -------------------------------- *)

\* Probed durations and slider positions are multiples of Tick milliseconds.
Tick == 500
\* Longest timeline the file dialogs are used to build, in ticks.
MaxTimelineTicks == 4
\* Largest time (ms) of the keep sets and cut ranges drawn for the cut alone.
MaxTime == 5
\* Largest number of clips build_command is given when it is exercised alone.
MaxBuildClips == 2
\* Largest segment bound build_command is given, in ticks.
MaxBuildTicks == 4
\* Longest playlist (ticks) build_command is given when its inputs may be
\* faulty; the segments it is given then reach one tick further.
MaxFaultTicks == 2
\* Largest number of clips of the registry when it is exercised alone.
MaxRegistryClips == 3
\* Longest clip (ms) added to the registry when it is exercised alone.
MaxDur == 2
\* Largest number of export threads created in one run.
MaxExports == 2

\* Paths of source files.
Paths == {"a.mp4", "b.mp4"}
\* File names QFileDialog.getOpenFileName returns in the main window.
DialogFiles == {"a.mp4"}
\* get_external_duration: a positive probe result (0 is the failed probe).
Durations == {Tick, 2 * Tick, 3 * Tick}

(* ------------------------------ state --------------------------------- *)

VARIABLES
    playlist,       \* TimelineManager.playlist: sequence of SourceClip
    segments,       \* MainWindow.segments: sequence of Segment (keep zones)
    start_time_ms,  \* MainWindow.start_time_ms (selection in marker)
    end_time_ms,    \* MainWindow.end_time_ms (selection out marker)
    slider_max,     \* maximum of the timeline slider's range (minimum is 0)
    located,        \* last answer of get_clip_at_global_time, with its question
    ffmpeg_exec,    \* FFmpegCommandBuilder.ffmpeg_exec ("" is None)
    files,          \* the paths os.path.exists finds
    settings,       \* the ExportSettings build_command is called with
    command,        \* what the last build_command call returned or raised
    current_clip,   \* MainWindow.current_clip: a SourceClip or None
    jump,           \* the call on the player the last position_changed ended with
    path_label,     \* MainWindow.path_label's text, by kind
    window_audio_path,    \* MainWindow.external_audio_path ("" is None)
    controls_enabled,     \* what set_controls_enabled was last called with
    export_thread,  \* MainWindow.export_thread: an index into threads, 0 is None
    threads,        \* the ExportThread objects created, in order of creation
    signals,        \* the signals of export threads queued for the window
    window,         \* "open", "waiting" (in closeEvent's wait), "closed", "aborted"
    last_op         \* the operation invoked last

vars == <<playlist, segments, start_time_ms, end_time_ms, slider_max, located,
          ffmpeg_exec, files, settings, command, current_clip, jump, path_label,
          window_audio_path, controls_enabled, export_thread, threads, signals,
          window, last_op>>

\* The export in progress: the thread objects, their queued signals, and what
\* they switch in the window.
thread_vars == <<window_audio_path, controls_enabled, export_thread, threads,
                 signals, window>>

\* The export side: the encoder path, the file system, the settings, the command.
export_vars == <<ffmpeg_exec, files, settings, command>>

\* The playback side: the clip being played and the last gap decision. The
\* QMediaPlayer's own state (source, position, playing or not) is not part of
\* the model; the calls position_changed makes on it are recorded in jump.
player_vars == <<current_clip, jump>>

\* models.Segment
Segment(s, e) == [start_ms |-> s, end_ms |-> e]

\* models.SourceClip. Its width and height fields are read by no operation
\* modelled here and are left out.
SourceClip(path, duration_ms, global_start, global_end) ==
    [path |-> path, duration_ms |-> duration_ms,
     global_start_ms |-> global_start, global_end_ms |-> global_end]

\* Python's None where a clip is expected.
None == [path |-> "None", duration_ms |-> 0, global_start_ms |-> 0, global_end_ms |-> 0]

(* -------------------------- TimelineManager --------------------------- *)

\* add_clip with the slip global_end = duration_ms (the start not added).
TimelineManager_add_clip_EndIsDuration(pl, path, duration_ms) ==
    LET global_start == IF pl # <<>> THEN pl[Len(pl)].global_end_ms ELSE 0
        global_end == duration_ms
    IN  Append(pl, SourceClip(path, duration_ms, global_start, global_end))

\* TimelineManager.add_clip: the playlist after appending a clip. The
\* signature also takes width and height, which only fill the clip's fields.
TimelineManager_add_clip(pl, path, duration_ms) ==
    LET global_start == IF pl # <<>> THEN pl[Len(pl)].global_end_ms ELSE 0
        global_end == global_start + duration_ms
    IN  Append(pl, SourceClip(path, duration_ms, global_start, global_end))

\* TimelineManager.get_total_duration
get_total_duration(pl) ==
    IF pl = <<>> THEN 0 ELSE pl[Len(pl)].global_end_ms

\* The loop with the slip of a closed interval: start <= t <= end.
RECURSIVE ScanClips_ClosedEnd(_, _, _)
ScanClips_ClosedEnd(pl, global_ms, i) ==
    IF i > Len(pl) THEN <<None, 0>>
    ELSE IF pl[i].global_start_ms <= global_ms /\ global_ms <= pl[i].global_end_ms
         THEN <<pl[i], global_ms - pl[i].global_start_ms>>
         ELSE ScanClips_ClosedEnd(pl, global_ms, i + 1)

\* The for loop of get_clip_at_global_time, from index i on: first match wins.
RECURSIVE ScanClips(_, _, _)
ScanClips(pl, global_ms, i) ==
    IF i > Len(pl) THEN <<None, 0>>
    ELSE IF pl[i].global_start_ms <= global_ms /\ global_ms < pl[i].global_end_ms
         THEN <<pl[i], global_ms - pl[i].global_start_ms>>
         ELSE ScanClips(pl, global_ms, i + 1)

\* get_clip_at_global_time with the slip of leaving out the clamp of a
\* negative time to 0.
get_clip_at_global_time_NoClamp(pl, global_ms) ==
    IF pl = <<>> THEN <<None, 0>>
    ELSE IF global_ms >= get_total_duration(pl) THEN <<None, 0>>
         ELSE ScanClips(pl, global_ms, 1)

\* TimelineManager.get_clip_at_global_time: <<clip or None, local_ms>>.
get_clip_at_global_time(pl, global_ms) ==
    IF pl = <<>> THEN <<None, 0>>
    ELSE LET clamped == IF global_ms < 0 THEN 0 ELSE global_ms
         IN  IF clamped >= get_total_duration(pl) THEN <<None, 0>>
             ELSE ScanClips(pl, clamped, 1)

(* ------------------------- the cut (apply_cut) ------------------------ *)

\* list.sort(key=start_ms) is stable: x goes after every element whose key
\* is not larger.
RECURSIVE InsertByStart(_, _)
InsertByStart(sorted, x) ==
    IF sorted = <<>> THEN <<x>>
    ELSE IF sorted[Len(sorted)].start_ms <= x.start_ms THEN Append(sorted, x)
         ELSE Append(InsertByStart(SubSeq(sorted, 1, Len(sorted) - 1), x),
                     sorted[Len(sorted)])

RECURSIVE SortByStart(_)
SortByStart(s) ==
    IF s = <<>> THEN <<>>
    ELSE InsertByStart(SortByStart(SubSeq(s, 1, Len(s) - 1)), s[Len(s)])

\* The loop body with the slip sel_end > seg_end in the cover test.
CutSegment_StrictCover(segment, sel_start, sel_end) ==
    LET seg_start == segment.start_ms
        seg_end == segment.end_ms
    IN  IF sel_start <= seg_start /\ sel_end > seg_end THEN <<>>
        ELSE IF sel_end <= seg_start \/ sel_start >= seg_end THEN <<segment>>
        ELSE IF sel_start <= seg_start /\ seg_start < sel_end
             THEN <<Segment(sel_end, seg_end)>>
        ELSE IF sel_start < seg_end /\ seg_end <= sel_end
             THEN <<Segment(seg_start, sel_start)>>
        ELSE IF seg_start < sel_start /\ sel_end < seg_end
             THEN <<Segment(seg_start, sel_start), Segment(sel_end, seg_end)>>
        ELSE <<>>

\* The loop body with the slip sel_start < seg_start in the cover test.
CutSegment_CoverFromBefore(segment, sel_start, sel_end) ==
    LET seg_start == segment.start_ms
        seg_end == segment.end_ms
    IN  IF sel_start < seg_start /\ sel_end >= seg_end THEN <<>>
        ELSE IF sel_end <= seg_start \/ sel_start >= seg_end THEN <<segment>>
        ELSE IF sel_start <= seg_start /\ seg_start < sel_end
             THEN <<Segment(sel_end, seg_end)>>
        ELSE IF sel_start < seg_end /\ seg_end <= sel_end
             THEN <<Segment(seg_start, sel_start)>>
        ELSE IF seg_start < sel_start /\ sel_end < seg_end
             THEN <<Segment(seg_start, sel_start), Segment(sel_end, seg_end)>>
        ELSE <<>>

\* The loop body with strict comparisons in the no-overlap test.
CutSegment_StrictNoOverlap(segment, sel_start, sel_end) ==
    LET seg_start == segment.start_ms
        seg_end == segment.end_ms
    IN  IF sel_start <= seg_start /\ sel_end >= seg_end THEN <<>>
        ELSE IF sel_end < seg_start \/ sel_start > seg_end THEN <<segment>>
        ELSE IF sel_start <= seg_start /\ seg_start < sel_end
             THEN <<Segment(sel_end, seg_end)>>
        ELSE IF sel_start < seg_end /\ seg_end <= sel_end
             THEN <<Segment(seg_start, sel_start)>>
        ELSE IF seg_start < sel_start /\ sel_end < seg_end
             THEN <<Segment(seg_start, sel_start), Segment(sel_end, seg_end)>>
        ELSE <<>>

\* The loop body with the slip sel_end for sel_start where the end is cut.
CutSegment_SuffixWrongBound(segment, sel_start, sel_end) ==
    LET seg_start == segment.start_ms
        seg_end == segment.end_ms
    IN  IF sel_start <= seg_start /\ sel_end >= seg_end THEN <<>>
        ELSE IF sel_end <= seg_start \/ sel_start >= seg_end THEN <<segment>>
        ELSE IF sel_start <= seg_start /\ seg_start < sel_end
             THEN <<Segment(sel_end, seg_end)>>
        ELSE IF sel_start < seg_end /\ seg_end <= sel_end
             THEN <<Segment(seg_start, sel_end)>>
        ELSE IF seg_start < sel_start /\ sel_end < seg_end
             THEN <<Segment(seg_start, sel_start), Segment(sel_end, seg_end)>>
        ELSE <<>>

\* Body of apply_cut's loop: what one segment contributes to new_segments.
CutSegment(segment, sel_start, sel_end) ==
    LET seg_start == segment.start_ms
        seg_end == segment.end_ms
    IN  IF sel_start <= seg_start /\ sel_end >= seg_end THEN <<>>
        ELSE IF sel_end <= seg_start \/ sel_start >= seg_end THEN <<segment>>
        ELSE IF sel_start <= seg_start /\ seg_start < sel_end
             THEN <<Segment(sel_end, seg_end)>>
        ELSE IF sel_start < seg_end /\ seg_end <= sel_end
             THEN <<Segment(seg_start, sel_start)>>
        ELSE IF seg_start < sel_start /\ sel_end < seg_end
             THEN <<Segment(seg_start, sel_start), Segment(sel_end, seg_end)>>
        ELSE <<>>

\* apply_cut's loop over self.segments, in order.
RECURSIVE CutLoop(_, _, _)
CutLoop(segs, sel_start, sel_end) ==
    IF segs = <<>> THEN <<>>
    ELSE CutSegment(Head(segs), sel_start, sel_end)
         \o CutLoop(Tail(segs), sel_start, sel_end)

\* new_segments of apply_cut after the loop and the sort.
CutSegments(segs, sel_start, sel_end) ==
    SortByStart(CutLoop(segs, sel_start, sel_end))

\* apply_cut with the slip sel_start > sel_end in the early return.
SegmentsAfterCut_StrictGuard(segs, sel_start, sel_end) ==
    IF sel_start > sel_end THEN segs
    ELSE CutSegments(segs, sel_start, sel_end)

\* self.segments when apply_cut returns, from self.segments and the selection
\* it was called with: the early return leaves the list alone.
SegmentsAfterCut(segs, sel_start, sel_end) ==
    IF sel_start >= sel_end THEN segs
    ELSE CutSegments(segs, sel_start, sel_end)

(* ------------------- FFmpegCommandBuilder.build_command --------------- *)

\* A millisecond count divided by 1000.0: <<whole seconds, thousandths>>.
Seconds(ms) == <<ms \div 1000, ms % 1000>>

\* A pad label with the slip of leaving the clip index out of it.
Label_NoClipIndex(name, seg_idx, i) == [name |-> name, seg_idx |-> seg_idx, i |-> 0]

\* A pad label of the filter graph: "[v_seg_{seg_idx}_{i}]", "[a_seg_...]",
\* "[outv]", "[outa]"; seg_idx and i count from 0 as enumerate does.
Label(name, seg_idx, i) == [name |-> name, seg_idx |-> seg_idx, i |-> i]

\* One element of filter_parts. kind "trim": "[{i}:v]trim=..,setpts,scale,setsar";
\* kind "atrim": "[{i}:a]atrim=..,asetpts"; kind "concat": "..concat=n=..".
Stage(kind, i, from, to, width, height, inputs, n, v, a, out) ==
    [kind |-> kind, input |-> i, from |-> from, to |-> to,
     width |-> width, height |-> height,
     inputs |-> inputs, n |-> n, v |-> v, a |-> a, out |-> out]

\* The loop body with the slip start <= end in the overlap test.
StagesOfPair_EmptyOverlap(pl, segs, st, seg_idx, i) ==
    LET seg == segs[seg_idx + 1]
        clip == pl[i + 1]
        start == IF seg.start_ms >= clip.global_start_ms
                 THEN seg.start_ms ELSE clip.global_start_ms
        end == IF seg.end_ms <= clip.global_end_ms
               THEN seg.end_ms ELSE clip.global_end_ms
        local_start == Seconds(start - clip.global_start_ms)
        local_end == Seconds(end - clip.global_start_ms)
    IN  IF start <= end
        THEN <<Stage("trim", i, local_start, local_end, st.width, st.height,
                     <<>>, 0, 0, 0, Label("v_seg", seg_idx, i))>>
             \o (IF ~st.use_external_audio
                 THEN <<Stage("atrim", i, local_start, local_end, 0, 0,
                              <<>>, 0, 0, 0, Label("a_seg", seg_idx, i))>>
                 ELSE <<>>)
        ELSE <<>>

\* The loop body with the slip of global bounds used as local ones.
StagesOfPair_GlobalTimes(pl, segs, st, seg_idx, i) ==
    LET seg == segs[seg_idx + 1]
        clip == pl[i + 1]
        start == IF seg.start_ms >= clip.global_start_ms
                 THEN seg.start_ms ELSE clip.global_start_ms
        end == IF seg.end_ms <= clip.global_end_ms
               THEN seg.end_ms ELSE clip.global_end_ms
        local_start == Seconds(start)
        local_end == Seconds(end)
    IN  IF start < end
        THEN <<Stage("trim", i, local_start, local_end, st.width, st.height,
                     <<>>, 0, 0, 0, Label("v_seg", seg_idx, i))>>
             \o (IF ~st.use_external_audio
                 THEN <<Stage("atrim", i, local_start, local_end, 0, 0,
                              <<>>, 0, 0, 0, Label("a_seg", seg_idx, i))>>
                 ELSE <<>>)
        ELSE <<>>

\* The loop body with the slip of emitting the audio stage whatever the
\* settings say.
StagesOfPair_AudioAlways(pl, segs, st, seg_idx, i) ==
    LET seg == segs[seg_idx + 1]
        clip == pl[i + 1]
        start == IF seg.start_ms >= clip.global_start_ms
                 THEN seg.start_ms ELSE clip.global_start_ms
        end == IF seg.end_ms <= clip.global_end_ms
               THEN seg.end_ms ELSE clip.global_end_ms
        local_start == Seconds(start - clip.global_start_ms)
        local_end == Seconds(end - clip.global_start_ms)
    IN  IF start < end
        THEN <<Stage("trim", i, local_start, local_end, st.width, st.height,
                     <<>>, 0, 0, 0, Label("v_seg", seg_idx, i)),
               Stage("atrim", i, local_start, local_end, 0, 0,
                     <<>>, 0, 0, 0, Label("a_seg", seg_idx, i))>>
        ELSE <<>>

\* What the loop body emits for segment seg_idx and clip i (both from 0):
\* the video stage, and the audio stage unless use_external_audio.
StagesOfPair(pl, segs, st, seg_idx, i) ==
    LET seg == segs[seg_idx + 1]
        clip == pl[i + 1]
        start == IF seg.start_ms >= clip.global_start_ms
                 THEN seg.start_ms ELSE clip.global_start_ms
        end == IF seg.end_ms <= clip.global_end_ms
               THEN seg.end_ms ELSE clip.global_end_ms
        local_start == Seconds(start - clip.global_start_ms)
        local_end == Seconds(end - clip.global_start_ms)
    IN  IF start < end
        THEN <<Stage("trim", i, local_start, local_end, st.width, st.height,
                     <<>>, 0, 0, 0, Label("v_seg", seg_idx, i))>>
             \o (IF ~st.use_external_audio
                 THEN <<Stage("atrim", i, local_start, local_end, 0, 0,
                              <<>>, 0, 0, 0, Label("a_seg", seg_idx, i))>>
                 ELSE <<>>)
        ELSE <<>>

\* The nested loops, from pair number k on; pair k is segment k \div Len(pl),
\* clip k % Len(pl): outer loop over the segments, inner loop over the playlist.
RECURSIVE TrimLoop(_, _, _, _)
TrimLoop(pl, segs, st, k) ==
    IF k >= Len(segs) * Len(pl) THEN <<>>
    ELSE StagesOfPair(pl, segs, st, k \div Len(pl), k % Len(pl))
         \o TrimLoop(pl, segs, st, k + 1)

\* The labels collected with the slip of prepending each one.
RECURSIVE ConcatParts_Prepend(_, _)
ConcatParts_Prepend(stages, kind) ==
    IF stages = <<>> THEN <<>>
    ELSE ConcatParts_Prepend(Tail(stages), kind)
         \o (IF Head(stages).kind = kind THEN <<Head(stages).out>> ELSE <<>>)

\* The out labels of the stages of one kind, in order: concat_v_parts
\* ("trim") and concat_a_parts ("atrim").
RECURSIVE ConcatParts(_, _)
ConcatParts(stages, kind) ==
    IF stages = <<>> THEN <<>>
    ELSE (IF Head(stages).kind = kind THEN <<Head(stages).out>> ELSE <<>>)
         \o ConcatParts(Tail(stages), kind)

\* The extension taken with the slip of leaving out str.lower().
Lower_AsWritten(ext) == ext

\* str.lower() on the extensions in use.
Lower(ext) ==
    CASE ext = ".MP4" -> ".mp4"
      [] ext = ".MKV" -> ".mkv"
      [] ext = ".WEBM" -> ".webm"
      [] OTHER -> ext

\* f".{settings.format}"
Dotted(format) ==
    CASE format = "mp4" -> ".mp4"
      [] format = "mkv" -> ".mkv"
      [] format = "webm" -> ".webm"
      [] OTHER -> "."

\* The codec table: v_codec, a_codec and extra_flags for an extension. A flag
\* is <<name, number, unit>> or <<name, 0, word>>.
Codec(ext, use_gpu, mbps) ==
    LET rate == <<<<"-b:v", mbps, "M">>, <<"-maxrate", mbps + 5, "M">>,
                  <<"-bufsize", mbps * 2, "M">>>>
        vp9 == rate \o <<<<"-crf", 30, "">>, <<"-deadline", 0, "realtime">>,
                         <<"-cpu-used", 4, "">>>>
    IN  IF ext = ".mkv"
        THEN IF use_gpu
             THEN [v_codec |-> "hevc_nvenc", a_codec |-> "libopus",
                   extra_flags |-> rate \o <<<<"-preset", 0, "p4">>,
                                             <<"-profile:v", 0, "main">>>>]
             ELSE [v_codec |-> "libvpx-vp9", a_codec |-> "libopus",
                   extra_flags |-> vp9]
        ELSE IF ext = ".mp4"
        THEN IF use_gpu
             THEN [v_codec |-> "h264_nvenc", a_codec |-> "aac",
                   extra_flags |-> rate \o <<<<"-preset", 0, "p4">>,
                                             <<"-profile:v", 0, "high">>,
                                             <<"-pix_fmt", 0, "yuv420p">>>>]
             ELSE [v_codec |-> "libx264", a_codec |-> "aac",
                   extra_flags |-> rate \o <<<<"-preset", 0, "medium">>,
                                             <<"-pix_fmt", 0, "yuv420p">>>>]
        ELSE IF ext = ".webm"
        THEN [v_codec |-> "libvpx-vp9", a_codec |-> "libopus", extra_flags |-> vp9]
        ELSE [v_codec |-> "libvpx-vp9", a_codec |-> "libopus", extra_flags |-> <<>>]

\* The argument vector, by its parts in the order they are appended.
Cmd(exec, inputs, shortest, filter_parts, map_v, map_a, codec, fps, output_path) ==
    [exec |-> exec, inputs |-> inputs, shortest |-> shortest,
     filter_complex |-> filter_parts, map_v |-> map_v, map_a |-> map_a,
     v_codec |-> codec.v_codec, extra_flags |-> codec.extra_flags,
     a_codec |-> codec.a_codec, fps |-> fps, output_path |-> output_path]

\* One argument, or one option with its value, of the list build_command
\* returns; the output path is the one argument without an option.
Arg(opt, val) == [opt |-> opt, val |-> val]

\* The list build_command returns, in the order the code extends it.
Args(cmd) ==
    <<Arg("exec", cmd.exec), Arg("-y", "")>>
    \o [k \in 1..Len(cmd.inputs) |-> Arg("-i", cmd.inputs[k])]
    \o (IF cmd.shortest THEN <<Arg("-shortest", "")>> ELSE <<>>)
    \o <<Arg("-filter_complex", cmd.filter_complex),
         Arg("-map", cmd.map_v), Arg("-map", cmd.map_a),
         Arg("-c:v", cmd.v_codec)>>
    \o [k \in 1..Len(cmd.extra_flags) |-> Arg(cmd.extra_flags[k][1], cmd.extra_flags[k])]
    \o <<Arg("-c:a", cmd.a_codec), Arg("-r", cmd.fps), Arg("", cmd.output_path)>>

NoCodec == [v_codec |-> "", a_codec |-> "", extra_flags |-> <<>>]
NoCmd == Cmd("", <<>>, FALSE, <<>>, Label("", 0, 0), Label("", 0, 0), NoCodec, "", "")

\* build_command returning cmd.
Returned(cmd) == [outcome |-> "returned", error |-> "", message |-> "", path |-> "",
                  cmd |-> cmd]
\* build_command raising error(message), the message naming path.
Raised(error, message, path) ==
    [outcome |-> "raised", error |-> error, message |-> message, path |-> path,
     cmd |-> NoCmd]
\* Before build_command was ever called.
NoCommand == [outcome |-> "none", error |-> "", message |-> "", path |-> "",
              cmd |-> NoCmd]

\* The inputs with the slip of adding each file once, at its first clip.
ClipPaths_OncePerFile(pl) ==
    LET first == {k \in 1..Len(pl) : \A j \in 1..(k - 1) : pl[j].path # pl[k].path}
        nth(n) == CHOOSE k \in first : Cardinality({j \in first : j < k}) = n - 1
    IN  [n \in 1..Cardinality(first) |-> pl[nth(n)].path]

\* The paths of the clips of pl, in order: the "-i" inputs.
ClipPaths(pl) == [i \in 1..Len(pl) |-> pl[i].path]

\* The test of lines 61 and 110: settings.use_external_audio and
\* settings.external_audio_path (None and "" are both falsy).
ExternalAudio(st) == st.use_external_audio /\ st.external_audio_path # ""

\* The checks with the slip of leaving out the test of the segments.
CheckInputs_SegmentsUnchecked(exec, pl, segs) ==
    IF exec = ""
    THEN Raised("FileNotFoundError", "FFmpeg executable not found.", "")
    ELSE IF pl = <<>>
    THEN Raised("ValueError", "No video clips in playlist.", "")
    ELSE NoCommand

\* Lines 42-49 of build_command: what the checks of the encoder, the playlist
\* and the segments raise; NoCommand when they raise nothing.
CheckInputs(exec, pl, segs) ==
    IF exec = ""
    THEN Raised("FileNotFoundError", "FFmpeg executable not found.", "")
    ELSE IF pl = <<>>
    THEN Raised("ValueError", "No video clips in playlist.", "")
    ELSE IF segs = <<>>
    THEN Raised("ValueError", "No segments provided for export.", "")
    ELSE NoCommand

\* The tests with the slip of looking at the first clip's file only.
CheckFiles_FirstClipOnly(fs, pl, st) ==
    LET missing == {i \in 1..Len(pl) : i = 1 /\ pl[i].path \notin fs}
        first_missing == CHOOSE i \in missing : \A j \in missing : i <= j
    IN  IF missing # {}
        THEN Raised("FileNotFoundError", "Input file not found", pl[first_missing].path)
        ELSE IF ExternalAudio(st) /\ st.external_audio_path \notin fs
        THEN Raised("FileNotFoundError", "External audio file not found",
                    st.external_audio_path)
        ELSE NoCommand

\* Lines 55-66 of build_command: what the os.path.exists tests of the inputs
\* raise, the clips in playlist order and then the external audio; NoCommand
\* when every input exists.
CheckFiles(fs, pl, st) ==
    LET missing == {i \in 1..Len(pl) : pl[i].path \notin fs}
        first_missing == CHOOSE i \in missing : \A j \in missing : i <= j
    IN  IF missing # {}
        THEN Raised("FileNotFoundError", "Input file not found", pl[first_missing].path)
        ELSE IF ExternalAudio(st) /\ st.external_audio_path \notin fs
        THEN Raised("FileNotFoundError", "External audio file not found",
                    st.external_audio_path)
        ELSE NoCommand

\* The compilation with the slip of leaving out the test of an empty graph.
CompileCommand_EmptyGraphUnchecked(exec, pl, segs, st) ==
    LET external == ExternalAudio(st)
        idx_ext_audio == IF external THEN Len(pl) ELSE -1
        inputs == ClipPaths(pl)
                  \o (IF external THEN <<st.external_audio_path>> ELSE <<>>)
        trims == TrimLoop(pl, segs, st, 0)
        concat_v_parts == ConcatParts(trims, "trim")
        concat_a_parts == ConcatParts(trims, "atrim")
        n_parts == Len(concat_v_parts)
        concat_v == Stage("concat", 0, <<0, 0>>, <<0, 0>>, 0, 0,
                          concat_v_parts, n_parts, 1, 0, Label("outv", 0, 0))
        concat_a == Stage("concat", 0, <<0, 0>>, <<0, 0>>, 0, 0,
                          concat_a_parts, n_parts, 0, 1, Label("outa", 0, 0))
        filter_parts == trims \o <<concat_v>>
                        \o (IF external THEN <<>> ELSE <<concat_a>>)
        map_a == IF external THEN Label(":a", 0, idx_ext_audio)
                 ELSE Label("outa", 0, 0)
        own_ext == Lower(st.output_path.ext)
        ext == IF own_ext = "" THEN Dotted(st.format) ELSE own_ext
    IN  IF FALSE
        THEN Raised("ValueError", "No video content selected to export", "")
        ELSE Returned(Cmd(exec, inputs, external, filter_parts,
                          Label("outv", 0, 0), map_a,
                          Codec(ext, st.use_gpu, st.bitrate_mbps),
                          st.fps, st.output_path))

\* Lines 52-196 of build_command once every check of the inputs has passed:
\* the filter graph and the argument vector, or the error of an empty graph.
CompileCommand(exec, pl, segs, st) ==
    LET external == ExternalAudio(st)
        idx_ext_audio == IF external THEN Len(pl) ELSE -1
        inputs == ClipPaths(pl)
                  \o (IF external THEN <<st.external_audio_path>> ELSE <<>>)
        trims == TrimLoop(pl, segs, st, 0)
        concat_v_parts == ConcatParts(trims, "trim")
        concat_a_parts == ConcatParts(trims, "atrim")
        n_parts == Len(concat_v_parts)
        concat_v == Stage("concat", 0, <<0, 0>>, <<0, 0>>, 0, 0,
                          concat_v_parts, n_parts, 1, 0, Label("outv", 0, 0))
        concat_a == Stage("concat", 0, <<0, 0>>, <<0, 0>>, 0, 0,
                          concat_a_parts, n_parts, 0, 1, Label("outa", 0, 0))
        filter_parts == trims \o <<concat_v>>
                        \o (IF external THEN <<>> ELSE <<concat_a>>)
        map_a == IF external THEN Label(":a", 0, idx_ext_audio)
                 ELSE Label("outa", 0, 0)
        own_ext == Lower(st.output_path.ext)
        ext == IF own_ext = "" THEN Dotted(st.format) ELSE own_ext
    IN  IF n_parts = 0
        THEN Raised("ValueError", "No video content selected to export", "")
        ELSE Returned(Cmd(exec, inputs, external, filter_parts,
                          Label("outv", 0, 0), map_a,
                          Codec(ext, st.use_gpu, st.bitrate_mbps),
                          st.fps, st.output_path))

\* FFmpegCommandBuilder.build_command(playlist, segments, settings), with the
\* builder's ffmpeg_exec and the file system it reads: the first exception
\* raised, in the order of the code, or the command returned.
build_command(exec, fs, pl, segs, st) ==
    IF CheckInputs(exec, pl, segs).outcome = "raised"
    THEN CheckInputs(exec, pl, segs)
    ELSE IF CheckFiles(fs, pl, st).outcome = "raised"
    THEN CheckFiles(fs, pl, st)
    ELSE CompileCommand(exec, pl, segs, st)

\* models.ExportSettings; output_path is the path's stem and extension, as
\* os.path.splitext splits it.
ExportSettings(output_path, format, bitrate_mbps, width, height, use_external_audio, external_audio_path, fps, use_gpu) ==
    [output_path |-> output_path, format |-> format, bitrate_mbps |-> bitrate_mbps,
     width |-> width, height |-> height,
     use_external_audio |-> use_external_audio,
     external_audio_path |-> external_audio_path, fps |-> fps, use_gpu |-> use_gpu]

\* settings before any ExportSettings was constructed.
NoSettings ==
    ExportSettings([stem |-> "", ext |-> ""], "", 0, 0, 0, FALSE, "", "", FALSE)

\* located before get_clip_at_global_time was ever called.
\* MainWindow.__init__: no external audio, no export thread, the controls
\* enabled, the window open.
NoExport ==
    /\ window_audio_path = ""
    /\ controls_enabled = TRUE
    /\ export_thread = 0
    /\ threads = <<>>
    /\ signals = <<>>
    /\ window = "open"

NotLocated == [global_ms |-> 0, clip |-> None, local_ms |-> 0]

\* jump before position_changed ever ran its gap logic.
NoJump == [global_pos |-> 0, call |-> "none", target |-> 0]

(* ----------------------------- MainWindow ----------------------------- *)

\* Values the timeline slider can hold: 0..slider_max, on the tick grid.
SliderValues == {Tick * k : k \in 0..(slider_max \div Tick)}

Init ==
    /\ playlist = <<>>
    /\ segments = <<>>
    /\ start_time_ms = 0
    /\ end_time_ms = 0
    /\ slider_max = 0
    /\ located = NotLocated
    /\ ffmpeg_exec = "ffmpeg"
    /\ files = Paths
    /\ settings = NoSettings
    /\ command = NoCommand
    /\ current_clip = None
    /\ jump = NoJump
    /\ path_label = "No file selected"
    /\ NoExport
    /\ last_op = "init"

\* MainWindow.open_file: New project. chosen is whether the dialog returned
\* a file, duration the probe's result.
open_file ==
    \E chosen \in BOOLEAN, file_name \in DialogFiles, duration \in Durations \cup {0} :
        /\ last_op' = "open_file"
        /\ UNCHANGED <<located, export_vars, thread_vars, jump>>
        /\ IF ~chosen
           THEN UNCHANGED <<playlist, segments, start_time_ms, end_time_ms, slider_max,
                            current_clip, path_label>>
           ELSE IF duration = 0
           THEN /\ playlist' = <<>>
                /\ segments' = <<>>
                /\ UNCHANGED <<start_time_ms, end_time_ms, slider_max, current_clip, path_label>>
           ELSE /\ playlist' = TimelineManager_add_clip(<<>>, file_name, duration)
                /\ current_clip' = playlist'[1]
                /\ segments' = <<Segment(0, duration)>>
                /\ slider_max' = get_total_duration(playlist')
                /\ path_label' = "Playlist"
                /\ UNCHANGED <<start_time_ms, end_time_ms>>

\* add_clip with the slip of rebuilding the keep set as open_file does: one
\* segment over the whole timeline.
add_clip_ResetsSegments ==
    \E chosen \in BOOLEAN, file_name \in DialogFiles, duration \in Durations \cup {0} :
        /\ get_total_duration(playlist) + duration <= MaxTimelineTicks * Tick
        /\ last_op' = "add_clip"
        /\ UNCHANGED <<located, export_vars, thread_vars, jump>>
        /\ IF ~chosen \/ duration = 0
           THEN UNCHANGED <<playlist, segments, start_time_ms, end_time_ms, slider_max,
                            current_clip, path_label>>
           ELSE /\ playlist' = TimelineManager_add_clip(playlist, file_name, duration)
                /\ UNCHANGED current_clip
                /\ segments' = <<Segment(0, get_total_duration(playlist'))>>
                /\ slider_max' = get_total_duration(playlist')
                /\ path_label' = "Playlist"
                /\ UNCHANGED <<start_time_ms, end_time_ms>>

\* MainWindow.add_clip. The call of TimelineManager.add_clip at line 386 (and at
\* line 364 in open_file) passes file_name and duration only, leaving out the
\* width and height the registry's signature declares; the model follows the
\* handler past that call as appending the clip with the probed duration.
add_clip ==
    \E chosen \in BOOLEAN, file_name \in DialogFiles, duration \in Durations \cup {0} :
        /\ get_total_duration(playlist) + duration <= MaxTimelineTicks * Tick
        /\ last_op' = "add_clip"
        /\ UNCHANGED <<located, export_vars, thread_vars, jump>>
        /\ IF ~chosen \/ duration = 0
           THEN UNCHANGED <<playlist, segments, start_time_ms, end_time_ms, slider_max,
                            current_clip, path_label>>
           ELSE /\ playlist' = TimelineManager_add_clip(playlist, file_name, duration)
                /\ UNCHANGED current_clip
                /\ LET new_clip == playlist'[Len(playlist')]
                   IN  segments' = SortByStart(Append(segments,
                           Segment(new_clip.global_start_ms, new_clip.global_end_ms)))
                /\ slider_max' = get_total_duration(playlist')
                /\ path_label' = "Playlist"
                /\ UNCHANGED <<start_time_ms, end_time_ms>>

\* clear_timeline with the slip of leaving the keep segments of the cleared
\* playlist.
clear_timeline_KeepsSegments ==
    /\ last_op' = "clear_timeline"
    /\ UNCHANGED <<located, export_vars, thread_vars, jump>>
    /\ playlist' = <<>>
    /\ slider_max' = get_total_duration(playlist')
    /\ path_label' = "No file selected"
    /\ UNCHANGED <<segments, start_time_ms, end_time_ms, current_clip>>

\* MainWindow.clear_timeline
clear_timeline ==
    /\ last_op' = "clear_timeline"
    /\ UNCHANGED <<located, export_vars, thread_vars, jump>>
    /\ playlist' = <<>>
    /\ segments' = <<>>
    /\ slider_max' = get_total_duration(playlist')
    /\ path_label' = "No file selected"
    /\ UNCHANGED <<start_time_ms, end_time_ms, current_clip>>

\* MainWindow.set_start
set_start ==
    \E value \in SliderValues :
        /\ last_op' = "set_start"
        /\ UNCHANGED <<located, export_vars, thread_vars, jump>>
        /\ start_time_ms' = value
        /\ end_time_ms' = IF value > end_time_ms
                          THEN get_total_duration(playlist) ELSE end_time_ms
        /\ UNCHANGED <<playlist, segments, slider_max, current_clip, path_label>>

\* MainWindow.set_end
set_end ==
    \E value \in SliderValues :
        /\ last_op' = "set_end"
        /\ UNCHANGED <<located, export_vars, thread_vars, jump>>
        /\ end_time_ms' = value
        /\ start_time_ms' = IF value < start_time_ms THEN 0 ELSE start_time_ms
        /\ UNCHANGED <<playlist, segments, slider_max, current_clip, path_label>>

\* reset_trim with the slip of restoring the keep set to the whole timeline.
reset_trim_RestoresSegments ==
    /\ last_op' = "reset_trim"
    /\ UNCHANGED <<located, export_vars, thread_vars, jump>>
    /\ start_time_ms' = 0
    /\ end_time_ms' = get_total_duration(playlist)
    /\ slider_max' = get_total_duration(playlist)
    /\ segments' = IF playlist = <<>> THEN <<>>
                   ELSE <<Segment(0, get_total_duration(playlist))>>
    /\ UNCHANGED <<playlist, current_clip, path_label>>

\* MainWindow.reset_trim
reset_trim ==
    /\ last_op' = "reset_trim"
    /\ UNCHANGED <<located, export_vars, thread_vars, jump>>
    /\ start_time_ms' = 0
    /\ end_time_ms' = get_total_duration(playlist)
    /\ slider_max' = get_total_duration(playlist)
    /\ UNCHANGED <<playlist, segments, current_clip, path_label>>

\* apply_cut with the slip of leaving the markers where they were.
apply_cut_KeepsMarkers ==
    /\ last_op' = "apply_cut"
    /\ UNCHANGED <<located, export_vars, thread_vars, player_vars, playlist, path_label>>
    /\ segments' = SegmentsAfterCut(segments, start_time_ms, end_time_ms)
    /\ IF start_time_ms >= end_time_ms
       THEN UNCHANGED <<start_time_ms, end_time_ms, slider_max>>
       ELSE /\ UNCHANGED <<start_time_ms, end_time_ms>>
            /\ slider_max' = get_total_duration(playlist)

\* MainWindow.apply_cut
apply_cut ==
    /\ last_op' = "apply_cut"
    /\ UNCHANGED <<located, export_vars, thread_vars, player_vars, playlist, path_label>>
    /\ segments' = SegmentsAfterCut(segments, start_time_ms, end_time_ms)
    /\ IF start_time_ms >= end_time_ms
       THEN UNCHANGED <<start_time_ms, end_time_ms, slider_max>>
       ELSE /\ start_time_ms' = 0
            /\ end_time_ms' = 0
            /\ slider_max' = get_total_duration(playlist)

Next ==
    \/ open_file
    \/ add_clip
    \/ clear_timeline
    \/ set_start
    \/ set_end
    \/ reset_trim
    \/ apply_cut

Spec == Init /\ [][Next]_vars

(* ------------------------- playback: gap jumping --------------------- *)

\* The gap logic of position_changed (lines 426-446) at global_pos: the call it
\* ends with, "set_position" (with its target), "pause" or "none".
GapJump(segs, global_pos) ==
    LET in_segment == \E k \in 1..Len(segs) :
                          segs[k].start_ms <= global_pos /\ global_pos < segs[k].end_ms
        later == {k \in 1..Len(segs) : segs[k].start_ms > global_pos}
        first == CHOOSE k \in later : \A l \in later : k <= l
    IN  IF ~in_segment /\ segs # <<>>
        THEN IF later # {}
             THEN [call |-> "set_position", target |-> segs[first].start_ms]
             ELSE IF segs # <<>> /\ global_pos > segs[Len(segs)].end_ms
                  THEN [call |-> "pause", target |-> 0]
                  ELSE [call |-> "none", target |-> 0]
        ELSE [call |-> "none", target |-> 0]

\* MainWindow.set_position: current_clip after seeking to the global position.
set_position(pl, clip_now, position) ==
    LET found == get_clip_at_global_time(pl, position)
    IN  IF found[1] = None THEN clip_now
        ELSE IF found[1] # clip_now THEN found[1] ELSE clip_now

\* Positions (ms) the player reports while it plays clip: 0 up to its end.
PlayerPositions(clip) == {Tick * k : k \in 0..(clip.duration_ms \div Tick)}

\* MainWindow.position_changed: the player reports its position in the
\* current clip.
position_changed ==
    \E position \in PlayerPositions(current_clip) :
        /\ last_op' = "position_changed"
        /\ UNCHANGED <<playlist, segments, start_time_ms, end_time_ms, slider_max,
                       located, export_vars, thread_vars, path_label>>
        /\ IF current_clip = None
           THEN UNCHANGED <<current_clip, jump>>
           ELSE LET global_pos == current_clip.global_start_ms + position
                    gap == GapJump(segments, global_pos)
                IN  /\ jump' = [global_pos |-> global_pos, call |-> gap.call,
                                target |-> gap.target]
                    /\ current_clip' =
                           IF gap.call = "set_position"
                           THEN set_position(playlist, current_clip, gap.target)
                           ELSE current_clip

(* ------------------- the clip registry exercised alone ---------------- *)

\* TimelineManager.add_clip called with a positive duration.
TimelineAddClip ==
    \E path \in Paths, duration_ms \in 1..MaxDur :
        /\ Len(playlist) < MaxRegistryClips
        /\ playlist' = TimelineManager_add_clip(playlist, path, duration_ms)
        /\ last_op' = "TimelineManager.add_clip"
        /\ UNCHANGED <<segments, start_time_ms, end_time_ms, slider_max, located, export_vars,
                       thread_vars, player_vars, path_label>>

\* TimelineManager.clear
TimelineClear ==
    /\ playlist' = <<>>
    /\ last_op' = "TimelineManager.clear"
    /\ UNCHANGED <<segments, start_time_ms, end_time_ms, slider_max, located, export_vars,
                       thread_vars, player_vars, path_label>>

\* A caller asks get_clip_at_global_time for a time on or around the timeline.
TimelineLocate ==
    \E global_ms \in -1..(get_total_duration(playlist) + 1) :
        /\ LET r == get_clip_at_global_time(playlist, global_ms)
           IN  located' = [global_ms |-> global_ms, clip |-> r[1], local_ms |-> r[2]]
        /\ last_op' = "get_clip_at_global_time"
        /\ UNCHANGED <<playlist, segments, start_time_ms, end_time_ms, slider_max,
                       export_vars, thread_vars, player_vars, path_label>>

NextTimeline ==
    \/ TimelineAddClip
    \/ TimelineClear
    \/ TimelineLocate

SpecTimeline == Init /\ [][NextTimeline]_vars

(* ------------------------ the cut exercised alone --------------------- *)

\* Every sorted list of positive-width, pairwise non-overlapping segments with
\* bounds among step * lo, ..., step * hi.
RECURSIVE KeepSetsFrom(_, _, _)
KeepSetsFrom(lo, hi, step) ==
    {<<>>} \cup
    UNION {{<<Segment(step * p[1], step * p[2])>> \o rest :
                rest \in KeepSetsFrom(p[2], hi, step)} :
           p \in {q \in (lo..hi) \X (lo..hi) : q[1] < q[2]}}

InitCut ==
    /\ playlist = <<>>
    /\ segments \in KeepSetsFrom(0, MaxTime, 1)
    /\ start_time_ms \in 0..MaxTime
    /\ end_time_ms \in 0..MaxTime
    /\ slider_max = 0
    /\ located = NotLocated
    /\ ffmpeg_exec = "ffmpeg"
    /\ files = Paths
    /\ settings = NoSettings
    /\ command = NoCommand
    /\ current_clip = None
    /\ jump = NoJump
    /\ path_label = "No file selected"
    /\ NoExport
    /\ last_op = "init"

NextCut == apply_cut

SpecCut == InitCut /\ [][NextCut]_vars

(* ------------------- build_command exercised alone -------------------- *)

\* Every registry add_clip builds from at most n clips with paths from Paths
\* and the probed durations.
RECURSIVE Registries(_)
Registries(n) ==
    IF n = 0 THEN {<<>>}
    ELSE LET shorter == Registries(n - 1)
         IN  shorter \cup
             {TimelineManager_add_clip(pl, path, duration_ms) :
                  pl \in {q \in shorter : Len(q) = n - 1},
                  path \in Paths, duration_ms \in Durations}

\* The settings build_command is tried with.
BuildSettings ==
    {ExportSettings([stem |-> "out", ext |-> ext], "mp4", 25, 1920, 1080,
                    audio[1], audio[2], "23.976", use_gpu) :
         ext \in {".mp4", ".MKV"},
         audio \in {<<FALSE, "">>, <<TRUE, "music.mp3">>},
         use_gpu \in {FALSE}}

InitBuild ==
    /\ playlist \in Registries(MaxBuildClips)
    /\ segments \in KeepSetsFrom(0, MaxBuildTicks, Tick)
    /\ start_time_ms = 0
    /\ end_time_ms = 0
    /\ slider_max = get_total_duration(playlist)
    /\ located = NotLocated
    /\ ffmpeg_exec = "ffmpeg"
    /\ files = Paths \cup {"music.mp3"}
    /\ settings \in BuildSettings
    /\ command = NoCommand
    /\ current_clip = None
    /\ jump = NoJump
    /\ path_label = "No file selected"
    /\ NoExport
    /\ last_op = "init"

\* A caller invokes build_command on the playlist, the segments and the settings.
BuildCommand ==
    /\ command = NoCommand
    /\ command' = build_command(ffmpeg_exec, files, playlist, segments, settings)
    /\ last_op' = "build_command"
    /\ UNCHANGED <<playlist, segments, start_time_ms, end_time_ms, slider_max,
                   located, ffmpeg_exec, files, settings, player_vars,
                   thread_vars, path_label>>

NextBuild == BuildCommand

SpecBuild == InitBuild /\ [][NextBuild]_vars

(* --------------- build_command exercised on faulty inputs ------------- *)

\* The ways use_external_audio and external_audio_path can be set.
AudioChoices ==
    {<<FALSE, "">>, <<TRUE, "music.mp3">>, <<TRUE, "">>, <<FALSE, "music.mp3">>}

\* The settings build_command is tried with on faulty inputs.
FaultSettings ==
    {ExportSettings([stem |-> "out", ext |-> ".mp4"], "mp4", 25, 1920, 1080,
                    audio[1], audio[2], "23.976", FALSE) :
         audio \in AudioChoices}

\* Any encoder path or none, any set of existing files, any playlist of at
\* most MaxFaultTicks ticks, any keep set (also one past the playlist's end).
InitBuildFaults ==
    /\ playlist \in {pl \in Registries(MaxBuildClips) :
                         get_total_duration(pl) <= MaxFaultTicks * Tick}
    /\ segments \in KeepSetsFrom(0, MaxFaultTicks + 1, Tick)
    /\ start_time_ms = 0
    /\ end_time_ms = 0
    /\ slider_max = get_total_duration(playlist)
    /\ located = NotLocated
    /\ ffmpeg_exec \in {"", "ffmpeg"}
    /\ files \in SUBSET (Paths \cup {"music.mp3"})
    /\ settings \in FaultSettings
    /\ command = NoCommand
    /\ current_clip = None
    /\ jump = NoJump
    /\ path_label = "No file selected"
    /\ NoExport
    /\ last_op = "init"

SpecBuildFaults == InitBuildFaults /\ [][NextBuild]_vars

(* -------------- build_command exercised on every container ----------- *)

\* The containers the codec table knows.
Containers == {"mp4", "mkv", "webm"}

\* The ways a path or, for a path without extension, the format names a
\* container: <<extension of output_path, format>>.
Spellings(container) ==
    CASE container = "mp4" -> {<<".mp4", "mp4">>, <<".MP4", "MP4">>, <<"", "mp4">>}
      [] container = "mkv" -> {<<".mkv", "mkv">>, <<".MKV", "MKV">>, <<"", "mkv">>}
      [] container = "webm" -> {<<".webm", "webm">>, <<".WEBM", "WEBM">>, <<"", "webm">>}

\* The settings build_command is tried with for the codec table: every
\* container in every spelling, both encoder preferences, the ends and the
\* default of the bitrate slider (main_window.py:229-232).
CodecSettings ==
    {ExportSettings([stem |-> "out", ext |-> sp[1]], sp[2], mbps, 1920, 1080,
                    FALSE, "", "23.976", use_gpu) :
         sp \in UNION {Spellings(c) : c \in Containers},
         mbps \in {5, 25, 60},
         use_gpu \in BOOLEAN}

InitBuildCodec ==
    /\ playlist \in {pl \in Registries(MaxBuildClips) :
                         get_total_duration(pl) <= MaxFaultTicks * Tick}
    /\ segments \in KeepSetsFrom(0, MaxFaultTicks, Tick)
    /\ start_time_ms = 0
    /\ end_time_ms = 0
    /\ slider_max = get_total_duration(playlist)
    /\ located = NotLocated
    /\ ffmpeg_exec = "ffmpeg"
    /\ files = Paths
    /\ settings \in CodecSettings
    /\ command = NoCommand
    /\ current_clip = None
    /\ jump = NoJump
    /\ path_label = "No file selected"
    /\ NoExport
    /\ last_op = "init"

SpecBuildCodec == InitBuildCodec /\ [][NextBuild]_vars

(* ---------------------- playback exercised alone --------------------- *)

\* A project with its clips, any keep set inside its timeline, and the player
\* on one of the clips or on none.
InitPlayer ==
    /\ playlist \in {pl \in Registries(MaxBuildClips) :
                         get_total_duration(pl) <= MaxTimelineTicks * Tick}
    /\ segments \in KeepSetsFrom(0, get_total_duration(playlist) \div Tick, Tick)
    /\ start_time_ms = 0
    /\ end_time_ms = 0
    /\ slider_max = get_total_duration(playlist)
    /\ located = NotLocated
    /\ ffmpeg_exec = "ffmpeg"
    /\ files = Paths
    /\ settings = NoSettings
    /\ command = NoCommand
    /\ current_clip \in {None} \cup {playlist[i] : i \in 1..Len(playlist)}
    /\ jump = NoJump
    /\ path_label = "No file selected"
    /\ NoExport
    /\ last_op = "init"

NextPlayer == position_changed

SpecPlayer == InitPlayer /\ [][NextPlayer]_vars

(* ------------------------------ export -------------------------------- *)

\* widgets.ExportThread: the command, how far the thread has come ("created",
\* "started" once start() was called, "spawned" once run has its process,
\* "done" once run has emitted its signal) and its process ("none" is None,
\* "running", "exited0", "exited1" by return code, "killed").
ExportThread(cmd) == [command |-> cmd, phase |-> "created", process |-> "none"]

\* QThread.isRunning
isRunning(thread) == thread.phase \in {"started", "spawned"}

\* A signal of thread t queued for the window's slots.
Signal(sig, t) == [sig |-> sig, thread |-> t]

\* os.path.splitext(output_path)[1][1:]: the extension without its dot.
Undotted(ext) ==
    CASE ext = ".mp4" -> "mp4"
      [] ext = ".mkv" -> "mkv"
      [] ext = ".webm" -> "webm"
      [] OTHER -> ""

\* What follows when the window lets go of its only reference to the thread
\* at export_thread (index t, 0 for None): the object is destroyed, and Qt ends
\* the program when a QThread is destroyed while it runs.
AfterDrop(t) ==
    IF t # 0 /\ isRunning(threads[t]) THEN "aborted" ELSE "open"

\* start_export's except clause with the slip of going on after the message.
ExceptReturn_GoesOn(built) == FALSE

\* start_export's try/except round build_command: whether the handler returns
\* after showing the error.
ExceptReturn(built) == built.outcome = "raised"

\* MainWindow.start_export: the Export button, enabled. ffmpeg_path is what the
\* encoder dialog returns when it is asked, chosen whether the save dialog
\* returned a path. The ExportSettings call at lines 606-613 leaves out the
\* width and height the dataclass requires; the model follows the handler past
\* it with both 0. A signal delivered while one of the handler's dialogs is
\* open is taken as delivered before or after the handler.
start_export ==
    \E ffmpeg_path \in {"", "ffmpeg.exe"}, chosen \in BOOLEAN :
        /\ window = "open"
        /\ controls_enabled
        /\ Len(threads) < MaxExports
        /\ last_op' = "start_export"
        /\ UNCHANGED <<playlist, segments, start_time_ms, end_time_ms, slider_max,
                       located, files, player_vars, path_label, window_audio_path,
                       controls_enabled, signals>>
        /\ IF path_label = "No file selected" \/ (ffmpeg_exec = "" /\ ffmpeg_path = "")
           THEN UNCHANGED <<ffmpeg_exec, settings, command, export_thread, threads, window>>
           ELSE /\ ffmpeg_exec' = IF ffmpeg_exec = "" THEN ffmpeg_path ELSE ffmpeg_exec
                /\ IF ~chosen
                   THEN UNCHANGED <<settings, command, export_thread, threads, window>>
                   ELSE /\ settings' = ExportSettings([stem |-> "out", ext |-> ".mp4"],
                                           Undotted(".mp4"), 25, 0, 0,
                                           window_audio_path # "", window_audio_path,
                                           "23.976", FALSE)
                        /\ command' = build_command(ffmpeg_exec', files, playlist,
                                                    segments, settings')
                        /\ IF ExceptReturn(command')
                           THEN UNCHANGED <<export_thread, threads, window>>
                           ELSE /\ export_thread' = Len(threads) + 1
                                /\ window' = AfterDrop(export_thread)
                                /\ threads' = Append(threads,
                                       [ExportThread(command'.cmd) EXCEPT !.phase =
                                            IF window' = "open" THEN "started"
                                            ELSE "created"])

\* ExportThread.run up to Popen, with the started signal QThread emits before
\* it: spawned is whether Popen returned a process or raised.
ExportThread_run ==
    \E t \in 1..Len(threads), spawned \in BOOLEAN :
        /\ window \in {"open", "waiting"}
        /\ threads[t].phase = "started"
        /\ last_op' = "ExportThread.run"
        /\ IF spawned
           THEN /\ threads' = [threads EXCEPT ![t].phase = "spawned",
                                              ![t].process = "running"]
                /\ signals' = Append(signals, Signal("started", t))
           ELSE /\ threads' = [threads EXCEPT ![t].phase = "done"]
                /\ signals' = signals \o <<Signal("started", t), Signal("error", t)>>
        /\ UNCHANGED <<playlist, segments, start_time_ms, end_time_ms, slider_max,
                       located, export_vars, player_vars, path_label, window_audio_path,
                       controls_enabled, export_thread, window>>

\* The encoder process comes to its end by itself, with return code 0 or not.
EncoderExits ==
    \E t \in 1..Len(threads), code \in {"exited0", "exited1"} :
        /\ window \in {"open", "waiting"}
        /\ threads[t].process = "running"
        /\ last_op' = "encoder exits"
        /\ threads' = [threads EXCEPT ![t].process = code]
        /\ UNCHANGED <<playlist, segments, start_time_ms, end_time_ms, slider_max,
                       located, export_vars, player_vars, path_label, window_audio_path,
                       controls_enabled, export_thread, signals, window>>

\* The signals with the slip of taking a killed process for a cancelled export
\* that reports nothing.
Emitted_NoneWhenKilled(process, t) ==
    IF process = "killed" THEN <<>>
    ELSE <<Signal(IF process = "exited0" THEN "export_finished" ELSE "error", t)>>

\* What run emits once communicate has returned: export_finished for return
\* code 0, error for any other.
Emitted(process, t) ==
    <<Signal(IF process = "exited0" THEN "export_finished" ELSE "error", t)>>

\* ExportThread.run from the return of communicate.
ExportThread_run_communicate ==
    \E t \in 1..Len(threads) :
        /\ window \in {"open", "waiting"}
        /\ threads[t].phase = "spawned"
        /\ threads[t].process \in {"exited0", "exited1", "killed"}
        /\ last_op' = "ExportThread.run"
        /\ threads' = [threads EXCEPT ![t].phase = "done"]
        /\ signals' = signals \o Emitted(threads[t].process, t)
        /\ UNCHANGED <<playlist, segments, start_time_ms, end_time_ms, slider_max,
                       located, export_vars, player_vars, path_label, window_audio_path,
                       controls_enabled, export_thread, window>>

\* MainWindow.on_export_started, on delivery of a thread's started signal.
on_export_started ==
    /\ window = "open"
    /\ signals # <<>>
    /\ Head(signals).sig = "started"
    /\ last_op' = "on_export_started"
    /\ signals' = Tail(signals)
    /\ controls_enabled' = FALSE
    /\ path_label' = "Exporting"
    /\ UNCHANGED <<playlist, segments, start_time_ms, end_time_ms, slider_max,
                   located, export_vars, player_vars, window_audio_path, threads,
                   export_thread, window>>

\* on_export_error with the slip of discarding the keep segments with the
\* failed export.
on_export_error_DropsSegments ==
    /\ window = "open"
    /\ signals # <<>>
    /\ Head(signals).sig = "error"
    /\ last_op' = "on_export_error"
    /\ signals' = Tail(signals)
    /\ controls_enabled' = TRUE
    /\ path_label' = "source"
    /\ export_thread' = 0
    /\ window' = AfterDrop(export_thread)
    /\ segments' = <<>>
    /\ UNCHANGED <<playlist, start_time_ms, end_time_ms, slider_max,
                   located, export_vars, player_vars, window_audio_path, threads>>

\* MainWindow.on_export_error, on delivery of a thread's error signal.
on_export_error ==
    /\ window = "open"
    /\ signals # <<>>
    /\ Head(signals).sig = "error"
    /\ last_op' = "on_export_error"
    /\ signals' = Tail(signals)
    /\ controls_enabled' = TRUE
    /\ path_label' = "source"
    /\ export_thread' = 0
    /\ window' = AfterDrop(export_thread)
    /\ UNCHANGED <<playlist, segments, start_time_ms, end_time_ms, slider_max,
                   located, export_vars, player_vars, window_audio_path, threads>>

\* MainWindow.on_export_finished, on delivery of a thread's export_finished
\* signal.
on_export_finished ==
    /\ window = "open"
    /\ signals # <<>>
    /\ Head(signals).sig = "export_finished"
    /\ last_op' = "on_export_finished"
    /\ signals' = Tail(signals)
    /\ controls_enabled' = TRUE
    /\ path_label' = "source"
    /\ export_thread' = 0
    /\ window' = AfterDrop(export_thread)
    /\ UNCHANGED <<playlist, segments, start_time_ms, end_time_ms, slider_max,
                   located, export_vars, player_vars, window_audio_path, threads>>

\* ExportThread.stop: kills the process if the thread has one; killing a
\* process that has exited changes nothing.
ExportThread_stop(thread) ==
    IF thread.process # "none"
    THEN [thread EXCEPT !.process = IF @ = "running" THEN "killed" ELSE @]
    ELSE thread

\* MainWindow.closeEvent: reply is the answer to the question asked when an
\* export is running. After Yes the handler stays in wait().
closeEvent ==
    \E reply \in {"Yes", "No"} :
        /\ window = "open"
        /\ last_op' = "closeEvent"
        /\ IF export_thread # 0 /\ isRunning(threads[export_thread])
           THEN IF reply = "Yes"
                THEN /\ threads' = [threads EXCEPT ![export_thread] = ExportThread_stop(@)]
                     /\ window' = "waiting"
                ELSE UNCHANGED <<threads, window>>
           ELSE /\ window' = "closed"
                /\ UNCHANGED threads
        /\ UNCHANGED <<playlist, segments, start_time_ms, end_time_ms, slider_max,
                       located, export_vars, player_vars, path_label, window_audio_path,
                       controls_enabled, export_thread, signals>>

\* closeEvent from the return of export_thread.wait(): the thread's run has
\* returned.
closeEvent_wait ==
    /\ window = "waiting"
    /\ ~isRunning(threads[export_thread])
    /\ last_op' = "closeEvent"
    /\ window' = "closed"
    /\ UNCHANGED <<playlist, segments, start_time_ms, end_time_ms, slider_max,
                   located, export_vars, player_vars, path_label, window_audio_path,
                   controls_enabled, export_thread, threads, signals>>

\* MainWindow.load_external_audio: file_name is what the dialog returned.
load_external_audio ==
    \E file_name \in {"", "music.mp3"} :
        /\ window = "open"
        /\ controls_enabled
        /\ last_op' = "load_external_audio"
        /\ window_audio_path' = IF file_name # "" THEN file_name ELSE window_audio_path
        /\ UNCHANGED <<playlist, segments, start_time_ms, end_time_ms, slider_max,
                       located, export_vars, player_vars, path_label,
                       controls_enabled, export_thread, threads, signals, window>>

\* MainWindow.clear_external_audio
clear_external_audio ==
    /\ window = "open"
    /\ controls_enabled
    /\ last_op' = "clear_external_audio"
    /\ window_audio_path' = ""
    /\ UNCHANGED <<playlist, segments, start_time_ms, end_time_ms, slider_max,
                   located, export_vars, player_vars, path_label,
                   controls_enabled, export_thread, threads, signals, window>>

\* The registries an export is tried on: empty, one clip, two clips.
ExportRegistries ==
    LET one == TimelineManager_add_clip(<<>>, "a.mp4", Tick)
    IN  {<<>>, one, TimelineManager_add_clip(one, "b.mp4", Tick)}

\* The project an export starts from: a registry with everything kept or
\* everything cut, the label as the editing handlers leave it, an encoder
\* found or not, every file present or one clip missing.
InitExport ==
    /\ playlist \in ExportRegistries
    /\ segments \in {<<>>} \cup (IF playlist = <<>> THEN {}
                                  ELSE {<<Segment(0, get_total_duration(playlist))>>})
    /\ start_time_ms = 0
    /\ end_time_ms = 0
    /\ slider_max = get_total_duration(playlist)
    /\ located = NotLocated
    /\ ffmpeg_exec \in {"", "ffmpeg"}
    /\ files \in {Paths \cup {"music.mp3"}, {"b.mp4", "music.mp3"}}
    /\ settings = NoSettings
    /\ command = NoCommand
    /\ current_clip = None
    /\ jump = NoJump
    /\ path_label \in (IF playlist = <<>> THEN {"No file selected"} ELSE {}) \cup {"Playlist"}
    /\ NoExport
    /\ last_op = "init"

NextExport ==
    \/ start_export
    \/ ExportThread_run
    \/ EncoderExits
    \/ ExportThread_run_communicate
    \/ on_export_started
    \/ on_export_finished
    \/ on_export_error
    \/ closeEvent
    \/ closeEvent_wait
    \/ load_external_audio
    \/ clear_external_audio

SpecExport == InitExport /\ [][NextExport]_vars

(* ------------------------------ claims -------------------------------- *)

\* Sorted ascending by start_ms, positive width, consecutive segments disjoint.
WellFormed(segs) ==
    /\ \A i \in 1..Len(segs) : segs[i].start_ms < segs[i].end_ms
    /\ \A i \in 1..(Len(segs) - 1) :
           /\ segs[i].start_ms <= segs[i + 1].start_ms
           /\ segs[i].end_ms <= segs[i + 1].start_ms

\* C1: in every state reachable through open_file, add_clip, set_start,
\* set_end, reset_trim, apply_cut and clear_timeline the keep-segment list is
\* sorted ascending by start_ms, every segment has start_ms < end_ms, and
\* consecutive segments do not overlap.
C1_SegmentsWellFormed == WellFormed(segments)

\* A cut has split a segment: more keep segments than clips.
C1_Witness ==
    /\ last_op = "apply_cut"
    /\ Len(segments) > Len(playlist)
    /\ Len(playlist) >= 2

\* The global times a segment list covers.
Covered(segs) ==
    UNION {segs[i].start_ms .. (segs[i].end_ms - 1) : i \in 1..Len(segs)}

\* The five cases of the cut, as the specification words them.
CutCase(c, s, e, sel_start, sel_end) ==
    CASE c = 1 -> sel_start <= s /\ sel_end >= e
      [] c = 2 -> sel_end <= s \/ sel_start >= e
      [] c = 3 -> sel_start <= s /\ s < sel_end /\ sel_end < e
      [] c = 4 -> s < sel_start /\ sel_start < e /\ e <= sel_end
      [] c = 5 -> s < sel_start /\ sel_end < e

\* What each case leaves of the segment [s, e).
CutCaseResult(c, s, e, sel_start, sel_end) ==
    CASE c = 1 -> <<>>
      [] c = 2 -> <<Segment(s, e)>>
      [] c = 3 -> <<Segment(sel_end, e)>>
      [] c = 4 -> <<Segment(s, sel_start)>>
      [] c = 5 -> <<Segment(s, sel_start), Segment(sel_end, e)>>

\* The cases that apply to segment seg.
CasesOf(seg, sel_start, sel_end) ==
    {c \in 1..5 : CutCase(c, seg.start_ms, seg.end_ms, sel_start, sel_end)}

\* The pieces the applicable cases leave of segs, in order.
RECURSIVE CasePieces(_, _, _)
CasePieces(segs, sel_start, sel_end) ==
    IF segs = <<>> THEN <<>>
    ELSE LET seg == Head(segs)
             c == CHOOSE k \in CasesOf(seg, sel_start, sel_end) : TRUE
         IN  CutCaseResult(c, seg.start_ms, seg.end_ms, sel_start, sel_end)
             \o CasePieces(Tail(segs), sel_start, sel_end)

\* C2: apply_cut with sel_start < sel_end is interval subtraction: the times
\* covered afterwards are those covered before minus [sel_start, sel_end), and
\* every segment falls under exactly one of the five cases, which decides what
\* is left of it.
C2_CutIsSubtraction ==
    [][(apply_cut /\ start_time_ms < end_time_ms) =>
          /\ Covered(segments') =
                 Covered(segments) \ (start_time_ms .. (end_time_ms - 1))
          /\ \A i \in 1..Len(segments) :
                 Cardinality(CasesOf(segments[i], start_time_ms, end_time_ms)) = 1
          /\ segments' = CasePieces(segments, start_time_ms, end_time_ms)]_vars

\* A cut has been applied and left a gap strictly inside the covered range.
C2_Witness ==
    /\ last_op = "apply_cut"
    /\ start_time_ms = 0 /\ end_time_ms = 0
    /\ \E i \in 1..(Len(segments) - 1) : segments[i].end_ms < segments[i + 1].start_ms

\* The clips lie back to back from 0.
BackToBack(pl) ==
    /\ pl # <<>> => pl[1].global_start_ms = 0
    /\ \A i \in 1..Len(pl) :
           pl[i].global_end_ms = pl[i].global_start_ms + pl[i].duration_ms
    /\ \A i \in 1..(Len(pl) - 1) : pl[i].global_end_ms = pl[i + 1].global_start_ms

\* C3: after any sequence of add_clip (duration_ms > 0) and clear the clips
\* are laid out back to back from 0, and add_clip leaves the clips already in
\* the registry as they were.
C3_RegistryBackToBack ==
    /\ [] BackToBack(playlist)
    /\ [][Len(playlist') > Len(playlist) =>
              SubSeq(playlist', 1, Len(playlist)) = playlist]_vars

\* The registry has been filled to three clips or more.
C3_Witness ==
    /\ last_op = "TimelineManager.add_clip"
    /\ Len(playlist) >= 3

\* C4: on a non-empty registry every global_ms in [0, total) is located in
\* exactly one clip, the one with global_start_ms <= global_ms < global_end_ms,
\* with local_ms = global_ms - global_start_ms; a boundary time belongs to the
\* clip on its right, at local offset 0.
C4_LocateTotal ==
    /\ \A global_ms \in 0..(get_total_duration(playlist) - 1) :
           LET r == get_clip_at_global_time(playlist, global_ms)
               holders == {i \in 1..Len(playlist) :
                               /\ playlist[i].global_start_ms <= global_ms
                               /\ global_ms < playlist[i].global_end_ms}
           IN  /\ Cardinality(holders) = 1
               /\ \A i \in holders :
                      /\ r[1] = playlist[i]
                      /\ r[2] = global_ms - playlist[i].global_start_ms
                      /\ 0 <= r[2] /\ r[2] < playlist[i].duration_ms
    /\ \A i \in 1..(Len(playlist) - 1) :
           get_clip_at_global_time(playlist, playlist[i].global_end_ms)
               = <<playlist[i + 1], 0>>

\* A boundary between two clips was asked for and answered with the right clip.
C4_Witness ==
    /\ last_op = "get_clip_at_global_time"
    /\ Len(playlist) >= 2
    /\ located.global_ms = playlist[1].global_end_ms
    /\ located.clip = playlist[2]
    /\ located.local_ms = 0

Max(a, b) == IF a >= b THEN a ELSE b
Min(a, b) == IF a <= b THEN a ELSE b

\* Milliseconds of a <<whole seconds, thousandths>> value.
Millis(sec) == sec[1] * 1000 + sec[2]

\* The video-trim stages of a command, in filter-graph order.
RECURSIVE StagesOfKind(_, _)
StagesOfKind(stages, kind) ==
    IF stages = <<>> THEN <<>>
    ELSE (IF Head(stages).kind = kind THEN <<Head(stages)>> ELSE <<>>)
         \o StagesOfKind(Tail(stages), kind)

\* A trim unit: clip index (from 0) and local bounds in seconds.
TrimUnit(i, from, to) == [clip |-> i, from |-> from, to |-> to]

\* The trim units of the stages of one kind, in order.
UnitsOf(cmd, kind) ==
    LET st == StagesOfKind(cmd.filter_complex, kind)
    IN  [k \in 1..Len(st) |-> TrimUnit(st[k].input, st[k].from, st[k].to)]

\* C5: build_command emits exactly one video-trim stage for each (segment,
\* clip) pair with a non-empty intersection and none for any other pair; its
\* bounds are the intersection's bounds minus the clip's global start, in
\* seconds, so 0 <= local_start < local_end <= duration_ms. A single uncut clip
\* of duration D gives one video trim [0, D), one audio trim [0, D), concat n 1.
C5_TrimPerIntersection ==
    command.outcome = "returned" =>
        LET trims == StagesOfKind(command.cmd.filter_complex, "trim")
            concats == StagesOfKind(command.cmd.filter_complex, "concat")
            pairs == (1..Len(segments)) \X (1..Len(playlist))
            lo(p) == Max(segments[p[1]].start_ms, playlist[p[2]].global_start_ms)
            hi(p) == Min(segments[p[1]].end_ms, playlist[p[2]].global_end_ms)
            of(p) == {k \in 1..Len(trims) :
                         trims[k].out = Label("v_seg", p[1] - 1, p[2] - 1)}
        IN  /\ \A p \in pairs :
                   Cardinality(of(p)) = IF lo(p) < hi(p) THEN 1 ELSE 0
            /\ \A k \in 1..Len(trims) : \E p \in pairs : k \in of(p)
            /\ \A p \in pairs : \A k \in of(p) :
                   LET clip == playlist[p[2]]
                   IN  /\ trims[k].input = p[2] - 1
                       /\ trims[k].from = Seconds(lo(p) - clip.global_start_ms)
                       /\ trims[k].to = Seconds(hi(p) - clip.global_start_ms)
                       /\ 0 <= Millis(trims[k].from)
                       /\ Millis(trims[k].from) < Millis(trims[k].to)
                       /\ Millis(trims[k].to) <= clip.duration_ms
            /\ (/\ Len(playlist) = 1
                /\ segments = <<Segment(0, playlist[1].duration_ms)>>
                /\ ~settings.use_external_audio) =>
                   LET whole == <<TrimUnit(0, Seconds(0),
                                           Seconds(playlist[1].duration_ms))>>
                   IN  /\ UnitsOf(command.cmd, "trim") = whole
                       /\ UnitsOf(command.cmd, "atrim") = whole
                       /\ \A k \in 1..Len(concats) : concats[k].n = 1

\* A command was built where one segment spans two clips and another pair of
\* segment and clip does not meet.
C5_Witness ==
    /\ last_op = "build_command"
    /\ command.outcome = "returned"
    /\ Len(playlist) = 2
    /\ \E s \in 1..Len(segments) :
           /\ segments[s].start_ms < playlist[1].global_end_ms
           /\ segments[s].end_ms > playlist[2].global_start_ms
    /\ \E s \in 1..Len(segments) :
           segments[s].start_ms >= playlist[1].global_end_ms

\* The global range [start, end) of the trim stage with out label l.
GlobalRange(cmd, pl, l) ==
    LET trims == StagesOfKind(cmd.filter_complex, "trim")
        k == CHOOSE j \in 1..Len(trims) : trims[j].out = l
        clip == pl[trims[k].input + 1]
    IN  <<clip.global_start_ms + Millis(trims[k].from),
          clip.global_start_ms + Millis(trims[k].to)>>

\* C6: for a gapless playlist and a sorted, non-overlapping keep set the trim
\* units, in the order the video concat takes them, have ascending disjoint
\* global ranges: each unit ends no later than the next one starts.
C6_ConcatInTimelineOrder ==
    command.outcome = "returned" =>
        LET concats == StagesOfKind(command.cmd.filter_complex, "concat")
            video == CHOOSE k \in 1..Len(concats) : concats[k].v = 1
            order == concats[video].inputs
        IN  \A k \in 1..(Len(order) - 1) :
                GlobalRange(command.cmd, playlist, order[k])[2]
                    <= GlobalRange(command.cmd, playlist, order[k + 1])[1]

\* A command was built from three units or more, one segment spanning two clips.
C6_Witness ==
    /\ last_op = "build_command"
    /\ command.outcome = "returned"
    /\ Len(UnitsOf(command.cmd, "trim")) >= 3
    /\ \E s \in 1..Len(segments) :
           /\ segments[s].start_ms < playlist[1].global_end_ms
           /\ segments[s].end_ms > playlist[1].global_end_ms

\* Settings with the original audio and every source file in place.
PlainSettings == {st \in BuildSettings : ~st.use_external_audio}

\* Scenario B of the specification: clips of 5000 ms each, cut (2000, 7000).
ScenarioB ==
    LET pl == TimelineManager_add_clip(
                  TimelineManager_add_clip(<<>>, "a.mp4", 5000), "b.mp4", 5000)
        segs == SegmentsAfterCut(<<Segment(0, 5000), Segment(5000, 10000)>>,
                                 2000, 7000)
    IN  /\ segs = <<Segment(0, 2000), Segment(7000, 10000)>>
        /\ \A st \in PlainSettings :
               UnitsOf(build_command("ffmpeg", Paths, pl, segs, st).cmd, "trim")
                   = <<TrimUnit(0, <<0, 0>>, <<2, 0>>), TrimUnit(1, <<2, 0>>, <<5, 0>>)>>

C8_CutIdempotent ==
    [][apply_cut =>
          SegmentsAfterCut(segments', start_time_ms, end_time_ms) = segments']_vars

\* A cut has removed something and left something.
C8_Witness ==
    /\ last_op = "apply_cut"
    /\ start_time_ms = 0 /\ end_time_ms = 0
    /\ segments # <<>>
    /\ Covered(segments) # 0..(segments[Len(segments)].end_ms - 1)

\* C9: apply_cut with sel_start >= sel_end leaves the keep-segment list (and
\* the selection) exactly as it was.
C9_EmptySelectionNoOp ==
    [][(apply_cut /\ start_time_ms >= end_time_ms) =>
          /\ segments' = segments
          /\ start_time_ms' = start_time_ms
          /\ end_time_ms' = end_time_ms]_vars

\* apply_cut has run with both markers on one time inside a keep segment.
C9_Witness ==
    /\ last_op = "apply_cut"
    /\ start_time_ms = end_time_ms
    /\ \E i \in 1..Len(segments) :
           segments[i].start_ms < start_time_ms /\ start_time_ms < segments[i].end_ms

\* C10: a cut whose range covers the whole timeline (sel_start <= 0 and
\* sel_end >= total duration) leaves no keep segment.
C10_FullCoverCutEmpties ==
    [][(apply_cut /\ start_time_ms <= 0
                  /\ end_time_ms >= get_total_duration(playlist)) =>
          segments' = <<>>]_vars

\* A cut has emptied the keep set of a loaded timeline.
C10_Witness ==
    /\ last_op = "apply_cut"
    /\ Len(playlist) >= 2
    /\ segments = <<>>

\* C11 as stated: after any invocation of apply_cut the markers
\* (start_time_ms, end_time_ms) are (0, 0).
C11_AnyCutResetsMarkers ==
    [][last_op' = "apply_cut" => start_time_ms' = 0 /\ end_time_ms' = 0]_vars

\* C11 amended: after an invocation of apply_cut with start_time_ms < end_time_ms
\* the markers (start_time_ms, end_time_ms) are (0, 0).
C11_CutResetsMarkers ==
    [][last_op' = "apply_cut" /\ start_time_ms < end_time_ms
           => start_time_ms' = 0 /\ end_time_ms' = 0]_vars

\* A cut with a non-empty selection has acted: it split the only clip's segment
\* and the markers are back at (0, 0).
C11_Witness ==
    /\ last_op = "apply_cut"
    /\ Len(playlist) = 1
    /\ Len(segments) = 2
    /\ start_time_ms = 0
    /\ end_time_ms = 0

\* s without its k-th element.
RemoveAt(s, k) == SubSeq(s, 1, k - 1) \o SubSeq(s, k + 1, Len(s))

\* s is in ascending order of start_ms.
SortedByStart(s) ==
    \A i \in 1..(Len(s) - 1) : s[i].start_ms <= s[i + 1].start_ms

C14_GapJump ==
    [][last_op' = "position_changed" /\ current_clip # None
           => LET p == jump'.global_pos
                  inside == \E k \in 1..Len(segments) :
                                segments[k].start_ms <= p /\ p < segments[k].end_ms
                  starts == {segments[k].start_ms : k \in 1..Len(segments)}
                  after == {s \in starts : s > p}
              IN  /\ segments' = segments
                  /\ inside => jump'.call = "none"
                  /\ (~inside /\ after # {})
                         => /\ jump'.call = "set_position"
                            /\ jump'.target \in after
                            /\ \A s \in after : jump'.target <= s
                  /\ (~inside /\ after = {}) => jump'.call = "pause"]_vars

\* C15 as stated: build_command called with no segments raises the error of
\* the empty segments, "No segments provided for export.", and no other, and
\* returns nothing.
C15_EmptySegmentsError ==
    (last_op = "build_command" /\ segments = <<>>)
    => /\ command.outcome = "raised"
       /\ command.message = "No segments provided for export."

\* C15 amended: build_command called with no segments returns nothing; with an
\* encoder and a non-empty playlist it raises ValueError("No segments provided
\* for export."), without an encoder FileNotFoundError("FFmpeg executable not
\* found."), and with an encoder and an empty playlist ValueError("No video
\* clips in playlist.").
C15_EmptySegmentsErrorInOrder ==
    (last_op = "build_command" /\ segments = <<>>)
    => /\ command.outcome = "raised"
       /\ command.cmd = NoCmd
       /\ (ffmpeg_exec # "" /\ playlist # <<>>)
              => /\ command.error = "ValueError"
                 /\ command.message = "No segments provided for export."
       /\ ffmpeg_exec = ""
              => /\ command.error = "FileNotFoundError"
                 /\ command.message = "FFmpeg executable not found."
       /\ (ffmpeg_exec # "" /\ playlist = <<>>)
              => /\ command.error = "ValueError"
                 /\ command.message = "No video clips in playlist."

\* build_command was called with an encoder, two clips, one of them missing on
\* disk, and no segments, and raised the error of the empty segments.
C15_Witness ==
    /\ last_op = "build_command"
    /\ segments = <<>>
    /\ ffmpeg_exec # ""
    /\ Len(playlist) = 2
    /\ playlist[1].path \notin files
    /\ command.outcome = "raised"
    /\ command.message = "No segments provided for export."

\* The clips of the playlist whose file does not exist.
MissingClips == {i \in 1..Len(playlist) : playlist[i].path \notin files}

\* The external audio is in use (flag and path set) and its file does not exist.
MissingAudio ==
    /\ settings.use_external_audio
    /\ settings.external_audio_path # ""
    /\ settings.external_audio_path \notin files

\* C16 as stated: build_command called with a clip whose file does not exist, or
\* with external audio in use whose file does not exist, raises the error of a
\* missing file naming one of the missing paths, and returns nothing.
C16_MissingSourceError ==
    (last_op = "build_command" /\ (MissingClips # {} \/ MissingAudio))
    => /\ command.outcome = "raised"
       /\ command.message \in {"Input file not found", "External audio file not found"}
       /\ command.path \notin files

\* C16 amended: build_command called with a clip whose file does not exist, or
\* with external audio in use whose file does not exist, returns nothing; when
\* the encoder is set and the playlist and the segments are non-empty it raises
\* FileNotFoundError naming the first missing clip of the playlist, or the
\* audio file when no clip is missing, whether or not that clip is used by a
\* segment.
C16_MissingSourceErrorInOrder ==
    (last_op = "build_command" /\ (MissingClips # {} \/ MissingAudio))
    => /\ command.outcome = "raised"
       /\ command.cmd = NoCmd
       /\ (ffmpeg_exec # "" /\ playlist # <<>> /\ segments # <<>>)
              => /\ command.error = "FileNotFoundError"
                 /\ IF MissingClips # {}
                    THEN /\ command.message = "Input file not found"
                         /\ \E i \in MissingClips :
                                /\ command.path = playlist[i].path
                                /\ \A j \in MissingClips : i <= j
                    ELSE /\ command.message = "External audio file not found"
                         /\ command.path = settings.external_audio_path

\* The second clip's file is missing and every segment lies in the first
\* clip: build_command raised the error naming the second clip's path.
C16_Witness ==
    /\ last_op = "build_command"
    /\ Len(playlist) = 2
    /\ MissingClips = {2}
    /\ segments # <<>>
    /\ segments[Len(segments)].end_ms <= playlist[1].global_end_ms
    /\ command.outcome = "raised"
    /\ command.message = "Input file not found"
    /\ command.path = playlist[2].path

\* No segment and clip of the call share a time: every intersection
\* [max of the starts, min of the ends) is empty.
NoOverlap ==
    \A k \in 1..Len(segments), i \in 1..Len(playlist) :
        Max(segments[k].start_ms, playlist[i].global_start_ms)
            >= Min(segments[k].end_ms, playlist[i].global_end_ms)

\* build_command raised the error of nothing to export.
NoContentError ==
    /\ command.outcome = "raised"
    /\ command.error = "ValueError"
    /\ command.message = "No video content selected to export"

\* C17 as stated: build_command raises the error of nothing to export exactly
\* when no segment intersects any clip, and a returned command has at least
\* one trim unit.
C17_NoContentIffNoOverlap ==
    last_op = "build_command"
    => /\ NoContentError <=> NoOverlap
       /\ command.outcome = "returned" => Len(UnitsOf(command.cmd, "trim")) >= 1

\* C17 amended: build_command raises the error of nothing to export only when
\* no segment intersects any clip, and always then once the earlier checks
\* pass (encoder set, playlist and segments non-empty, every input file
\* exists); a returned command has at least one trim unit.
C17_NoContentAfterChecks ==
    last_op = "build_command"
    => /\ NoContentError => NoOverlap
       /\ (/\ NoOverlap
           /\ ffmpeg_exec # "" /\ playlist # <<>> /\ segments # <<>>
           /\ MissingClips = {} /\ ~MissingAudio) => NoContentError
       /\ command.outcome = "returned"
              => ~NoOverlap /\ Len(UnitsOf(command.cmd, "trim")) >= 1

\* build_command was called with a clip and a segment past the clip's end and
\* raised the error of nothing to export.
C17_Witness ==
    /\ last_op = "build_command"
    /\ playlist # <<>>
    /\ segments # <<>>
    /\ segments[1].start_ms >= get_total_duration(playlist)
    /\ NoContentError

\* The audio side of cmd matches its video side: one audio-trim stage for each
\* video-trim stage, in the same order, with the same clip, bounds and label
\* indices, and one audio concat taking the audio labels in that order.
AudioMatchesVideo(cmd) ==
    LET trims == StagesOfKind(cmd.filter_complex, "trim")
        atrims == StagesOfKind(cmd.filter_complex, "atrim")
        concats == StagesOfKind(cmd.filter_complex, "concat")
        audio == {k \in 1..Len(concats) : concats[k].a = 1}
    IN  /\ Len(atrims) = Len(trims)
        /\ \A k \in 1..Len(atrims) :
               /\ atrims[k].input = trims[k].input
               /\ atrims[k].from = trims[k].from
               /\ atrims[k].to = trims[k].to
               /\ atrims[k].out = Label("a_seg", trims[k].out.seg_idx, trims[k].out.i)
        /\ Cardinality(audio) = 1
        /\ \A k \in audio :
               /\ concats[k].n = Len(atrims)
               /\ concats[k].inputs = [j \in 1..Len(atrims) |-> atrims[j].out]
               /\ concats[k].out = cmd.map_a

\* C18: a command returned for settings without an external-audio override
\* (the flag and the path are not both set) has, for every trim unit, one
\* audio-trim stage with the video-trim stage's clip and bounds, and the audio
\* concat takes them in the order of the video stages.
C18_AudioTrimPerUnit ==
    (/\ last_op = "build_command"
     /\ command.outcome = "returned"
     /\ ~(settings.use_external_audio /\ settings.external_audio_path # ""))
    => AudioMatchesVideo(command.cmd)

\* The audio of cmd is the external file: it is the input after the clips, the
\* audio map selects it, "-shortest" cuts it to the video's length, and the
\* filter graph has no audio-trim stage and no audio concat.
AudioIsOverride(cmd, pl, st) ==
    /\ Len(cmd.inputs) = Len(pl) + 1
    /\ cmd.inputs[Len(pl) + 1] = st.external_audio_path
    /\ cmd.map_a = Label(":a", 0, Len(pl))
    /\ cmd.shortest
    /\ StagesOfKind(cmd.filter_complex, "atrim") = <<>>
    /\ \A k \in 1..Len(cmd.filter_complex) :
           cmd.filter_complex[k].kind = "concat" => cmd.filter_complex[k].a = 0

C20_OneVideoConcat ==
    (last_op = "build_command" /\ command.outcome = "returned")
    => LET cmd == command.cmd
           trims == StagesOfKind(cmd.filter_complex, "trim")
           concats == StagesOfKind(cmd.filter_complex, "concat")
           video == {k \in 1..Len(concats) : concats[k].v = 1}
           outv == {k \in 1..Len(cmd.filter_complex) :
                        cmd.filter_complex[k].out = Label("outv", 0, 0)}
       IN  /\ Cardinality(video) = 1
           /\ \A k \in video :
                  /\ concats[k].n = Len(UnitsOf(cmd, "trim"))
                  /\ concats[k].inputs = [j \in 1..Len(trims) |-> trims[j].out]
                  /\ concats[k].a = 0
                  /\ concats[k].out = Label("outv", 0, 0)
           /\ \A j, l \in 1..Len(trims) : j # l => trims[j].out # trims[l].out
           /\ Cardinality(outv) = 1
           /\ cmd.map_v = Label("outv", 0, 0)

\* A command was built whose video concat takes three labels or more, two of
\* them from one segment that spans two clips.
C20_Witness ==
    /\ last_op = "build_command"
    /\ command.outcome = "returned"
    /\ LET trims == StagesOfKind(command.cmd.filter_complex, "trim")
       IN  /\ Len(trims) >= 3
           /\ \E j, l \in 1..Len(trims) :
                  /\ j # l
                  /\ trims[j].out.seg_idx = trims[l].out.seg_idx

\* The container the settings ask for: the one their path's extension spells,
\* or their format when the path has no extension.
ContainerOf(st) ==
    CHOOSE c \in Containers : <<st.output_path.ext, st.format>> \in Spellings(c)

\* C21: for each of the containers mp4, mkv and webm, however spelled, and
\* each value of use_gpu, a returned command names one video codec and one
\* audio codec, the pairing depends on the container and use_gpu only, and
\* its flags start with -b:v mbps, -maxrate mbps + 5, -bufsize 2 * mbps: no
\* such settings get the default codecs with no flags.
C21_CodecTotal ==
    (last_op = "build_command" /\ command.outcome = "returned")
    => LET cmd == command.cmd
           mbps == settings.bitrate_mbps
           same == {st \in CodecSettings :
                        /\ ContainerOf(st) = ContainerOf(settings)
                        /\ st.use_gpu = settings.use_gpu}
       IN  /\ cmd.v_codec # ""
           /\ cmd.a_codec # ""
           /\ Len(cmd.extra_flags) >= 3
           /\ cmd.extra_flags[1] = <<"-b:v", mbps, "M">>
           /\ cmd.extra_flags[2] = <<"-maxrate", mbps + 5, "M">>
           /\ cmd.extra_flags[3] = <<"-bufsize", 2 * mbps, "M">>
           /\ \A st \in same :
                  LET other == build_command(ffmpeg_exec, files, playlist, segments, st)
                  IN  /\ other.outcome = "returned"
                      /\ other.cmd.v_codec = cmd.v_codec
                      /\ other.cmd.a_codec = cmd.a_codec

\* A command was built for a path ending in ".WEBM" with the hardware encoder
\* preferred.
C21_Witness ==
    /\ last_op = "build_command"
    /\ command.outcome = "returned"
    /\ settings.output_path.ext = ".WEBM"
    /\ settings.use_gpu
    /\ command.cmd.v_codec = "libvpx-vp9"

\* The stages of a command's filter graph whose output pad is label.
Producers(cmd, label) ==
    {k \in 1..Len(cmd.filter_complex) : cmd.filter_complex[k].out = label}

C24_NoThreadWithoutPlan ==
    [][(last_op' = "start_export")
       => /\ command'.outcome = "raised"
             => (threads' = threads /\ export_thread' = export_thread)
          /\ \A t \in 1..Len(threads') :
                 /\ threads'[t].command # NoCmd
                 /\ threads'[t].command.filter_complex # <<>>]_vars

\* start_export got as far as build_command, which raised for the lack of
\* segments, and no thread exists.
C24_Witness ==
    /\ last_op = "start_export"
    /\ command.outcome = "raised"
    /\ command.message = "No segments provided for export."
    /\ settings # NoSettings
    /\ threads = <<>>
    /\ export_thread = 0

\* C25: a start_export step taken while the thread at export_thread is
\* running is rejected: it creates no thread and leaves export_thread as it
\* was.
C25_SecondExportRejected ==
    [][(/\ last_op' = "start_export"
        /\ export_thread # 0
        /\ isRunning(threads[export_thread]))
       => (threads' = threads /\ export_thread' = export_thread)]_vars

\* C26: no step of the export (start_export with its build_command, the
\* thread's run, the encoder's exit, the three slots, closeEvent with its
\* stop) changes the playlist or the keep segments.
C26_ExportKeepsProject ==
    [][(last_op' \in {"start_export", "ExportThread.run", "encoder exits",
                      "on_export_started", "on_export_finished", "on_export_error",
                      "closeEvent"})
       => (playlist' = playlist /\ segments' = segments)]_vars

\* An export of a project with clips and keep segments failed and its error
\* was delivered.
C26_Witness ==
    /\ last_op = "on_export_error"
    /\ playlist # <<>>
    /\ segments # <<>>
    /\ command.outcome = "returned"
    /\ \E t \in 1..Len(threads) : threads[t].process = "exited1"

\* C27: while closeEvent waits after its stop(), the stopped thread has no
\* encoder process running.
C27_StopEndsEncoder ==
    window = "waiting" => threads[export_thread].process # "running"

\* The times of the timeline, at the slider's steps, that no keep segment
\* holds: what the cuts removed.
CutTimes(pl, segs) ==
    {ms \in {Tick * k : k \in 0..((get_total_duration(pl) \div Tick) - 1)} :
         ~\E i \in 1..Len(segs) : segs[i].start_ms <= ms /\ ms < segs[i].end_ms}

\* C28: every reset_trim step sets the markers to (0, total duration) and
\* leaves the keep segments and the playlist as they were; a step after which
\* a time that was cut is no longer cut is an open_file or a clear_timeline.
C28_ResetKeepsCuts ==
    [][/\ (last_op' = "reset_trim")
          => /\ start_time_ms' = 0
             /\ end_time_ms' = get_total_duration(playlist)
             /\ segments' = segments
             /\ playlist' = playlist
       /\ ~(CutTimes(playlist, segments) \subseteq CutTimes(playlist', segments'))
          => last_op' \in {"open_file", "clear_timeline"}]_vars

\* reset_trim ran on a project with a cut in the middle of its timeline and
\* the markers went back to the whole timeline.
C28_Witness ==
    /\ last_op = "reset_trim"
    /\ Len(segments) >= 2
    /\ CutTimes(playlist, segments) # {}
    /\ start_time_ms = 0
    /\ end_time_ms = get_total_duration(playlist)
    /\ end_time_ms > 0

\* C29: current_clip is None or one of the clips of the playlist.
C29_CurrentClipInPlaylist ==
    current_clip = None \/ \E i \in 1..Len(playlist) : playlist[i] = current_clip

\* C30: every keep segment has 0 <= start_ms < end_ms <= total duration, and
\* there is none when the playlist is empty; so get_clip_at_global_time finds
\* a clip at the target of the gap jump from every position, and
\* build_command, given its files, returns for a non-empty keep set a command
\* with at least one trim unit.
C30_SegmentsInsideTimeline ==
    LET total == get_total_duration(playlist)
    IN  /\ \A i \in 1..Len(segments) :
               /\ 0 <= segments[i].start_ms
               /\ segments[i].start_ms < segments[i].end_ms
               /\ segments[i].end_ms <= total
        /\ playlist = <<>> => segments = <<>>
        /\ \A global_pos \in {Tick * k : k \in 0..(total \div Tick)} :
               LET gap == GapJump(segments, global_pos)
               IN  gap.call = "set_position"
                   => get_clip_at_global_time(playlist, gap.target)[1] # None
        /\ segments # <<>>
           => \A st \in BuildSettings :
                  LET built == build_command("ffmpeg", Paths \cup {"music.mp3"},
                                             playlist, segments, st)
                  IN  /\ built.outcome = "returned"
                      /\ Len(UnitsOf(built.cmd, "trim")) >= 1

\* Two clips, cut at the start and at the end, with a keep segment in each
\* clip; a gap jump from 0 goes to the first.
C30_Witness ==
    /\ Len(playlist) = 2
    /\ Len(segments) = 2
    /\ segments[1].start_ms > 0
    /\ segments[1].end_ms <= playlist[1].global_end_ms
    /\ segments[2].start_ms >= playlist[2].global_start_ms
    /\ segments[2].end_ms < get_total_duration(playlist)
    /\ GapJump(segments, 0).call = "set_position"

\* C31: whenever the slider's range is the current timeline, so that its
\* values lie within [0, total duration], the selection markers denote a range
\* of that timeline: 0 <= start_time_ms <= end_time_ms <= total duration.
C31_SelectionInsideTimeline ==
    slider_max = get_total_duration(playlist)
    => /\ 0 <= start_time_ms
       /\ start_time_ms <= end_time_ms
       /\ end_time_ms <= get_total_duration(playlist)

\* The cut ranges tried as the second cut: start < end within 0..MaxTime.
CutRanges == {r \in (0..MaxTime) \X (0..MaxTime) : r[1] < r[2]}

\* C32: for every well-formed keep set and cut ranges A and B, start < end
\* each: apply_cut with A and then the cut B leaves the same segment list as
\* the cut B and then the cut A.
C32_CutsCommute ==
    [][(last_op' = "apply_cut" /\ start_time_ms < end_time_ms /\ WellFormed(segments))
       => \A B \in CutRanges :
              SegmentsAfterCut(segments', B[1], B[2])
              = SegmentsAfterCut(SegmentsAfterCut(segments, B[1], B[2]),
                                 start_time_ms, end_time_ms)]_vars

\* A cut split a segment, and a second cut across the two pieces changes
\* both of them.
C32_Witness ==
    /\ last_op = "apply_cut"
    /\ Len(segments) = 2
    /\ segments[1].end_ms < segments[2].start_ms
    /\ \E B \in CutRanges :
           /\ segments[1].start_ms < B[1] /\ B[1] < segments[1].end_ms
           /\ segments[2].start_ms < B[2] /\ B[2] < segments[2].end_ms
           /\ Len(SegmentsAfterCut(segments, B[1], B[2])) = 2

\* C33: for every settings value, the flag and the path disagreeing or not,
\* a returned command's audio is well-formed: either the audio map selects
\* the external input and there is no audio-trim stage, or there is one audio
\* concat whose n is the number of audio-trim stages emitted, which is the
\* number of trim units and at least 1.
C33_AudioWellFormed ==
    (last_op = "build_command" /\ command.outcome = "returned")
    => LET cmd == command.cmd
           atrims == StagesOfKind(cmd.filter_complex, "atrim")
           concats == StagesOfKind(cmd.filter_complex, "concat")
           audio == {k \in 1..Len(concats) : concats[k].a = 1}
       IN  \/ /\ cmd.map_a = Label(":a", 0, Len(playlist))
              /\ Len(cmd.inputs) = Len(playlist) + 1
              /\ atrims = <<>>
           \/ /\ cmd.map_a = Label("outa", 0, 0)
              /\ Cardinality(audio) = 1
              /\ \A k \in audio : concats[k].n = Len(atrims)
              /\ Len(atrims) = Len(UnitsOf(cmd, "trim"))
              /\ Len(atrims) >= 1

\* The export_finished and error signals of thread t in sigs.
Terminal(sigs, t) ==
    LET IsTerminal(s) == s.thread = t /\ s.sig \in {"export_finished", "error"}
    IN  SelectSeq(sigs, IsTerminal)

C35_FailedLoadKeepsProject ==
    [][(\/ last_op' = "open_file" /\ playlist' = <<>>
        \/ last_op' = "add_clip" /\ Len(playlist') = Len(playlist))
       => (playlist' = playlist /\ segments' = segments)]_vars

====
